---- MODULE Spec2Model ----
(***************************************************************************)
(* gantt_chart.py: a command-line report generator.  It parses two run     *)
(* logs (sequential, parallel) with parse_csv and renders one image with   *)
(* generate_gantt.                                                         *)
(*                                                                         *)
(* Text is modelled as a sequence of glyphs.  A glyph is a one-character   *)
(* string (a digit, a blank, a comma, a newline, ...) or a whole word such *)
(* as "thread_id" standing for a run of letters that no conversion looks   *)
(* into.  The parser's strip() and split() and the renderer's int() and    *)
(* float() work on these sequences as the Python built-ins work on str.    *)
(* A float is an exact rational <<n, d>> with d > 0 in lowest terms.       *)
(***************************************************************************)
EXTENDS Integers, Sequences, FiniteSets, TLC

VARIABLES
    pc,          \* position of the process in __main__ / generate_gantt
    argv,        \* positional arguments given (argv[1..]): a sequence of paths
    fs,          \* the files that exist: path -> text
    mpl,         \* TRUE iff "import matplotlib" succeeds
    seq, par,    \* the parsed logs (None before parse_csv returns)
    m,           \* derived metrics of generate_gantt (None before computed)
    drawn,       \* what the panels have drawn so far: a sequence of marks
    ro,          \* the paths that cannot be opened for writing
    events,      \* observable steps so far, in order
    exit,        \* <<status>> once the process has exited, <<>> while it runs
    fault,       \* the exception that ended the run ("none" if no exception)
    rows2, rows3,\* parser harness: the lines of sections 2 and 3 as written
                 \* (header line first; rows3 = <<>> when there is no section 3)
    parsed,      \* parser harness: result of parse_csv on the written file
    times,       \* heuristic harness: sample timestamps of one thread
    marks        \* heuristic harness: context-switch markers drawn

vars == <<pc, argv, fs, mpl, seq, par, m, drawn, ro, events, exit, fault,
          rows2, rows3, parsed, times, marks>>

\* the value of a name not yet bound
None == [fault |-> "None"]

-----------------------------------------------------------------------------
(* str methods used by parse_csv *)

Whitespace == {" ", "\n"}

RECURSIVE lstrip(_)
lstrip(s) ==
    IF s # <<>> /\ Head(s) \in Whitespace THEN lstrip(Tail(s)) ELSE s

RECURSIVE rstrip(_)
rstrip(s) ==
    IF s # <<>> /\ s[Len(s)] \in Whitespace
    THEN rstrip(SubSeq(s, 1, Len(s) - 1))
    ELSE s

strip(s) == rstrip(lstrip(s))

\* s.find(sep, i): the first position >= i where sep occurs in s, 0 if none
RECURSIVE find(_, _, _)
find(s, sep, i) ==
    IF i + Len(sep) - 1 > Len(s) THEN 0
    ELSE IF SubSeq(s, i, i + Len(sep) - 1) = sep THEN i
    ELSE find(s, sep, i + 1)

RECURSIVE split(_, _)
split(s, sep) ==
    LET i == find(s, sep, 1)
    IN  IF i = 0 THEN <<s>>
        ELSE <<SubSeq(s, 1, i - 1)>> \o split(SubSeq(s, i + Len(sep), Len(s)), sep)

Min(a, b) == IF a < b THEN a ELSE b

\* mutant: pairing that pads a short row with empty values (zip_longest)
zip_dict_padded(keys, vals) ==
    [k \in {strip(keys[i]) : i \in 1..Len(keys)} |->
        LET idx  == {i \in 1..Len(keys) : strip(keys[i]) = k}
            last == CHOOSE i \in idx : \A j \in idx : j <= i
        IN  IF last <= Len(vals) THEN strip(vals[last]) ELSE <<>>]

\* dict built by "for k, v in zip(keys, vals): d[k.strip()] = v.strip()"
ZipKeys(keys, vals) == {strip(keys[i]) : i \in 1..Min(Len(keys), Len(vals))}

zip_dict(keys, vals) ==
    [k \in ZipKeys(keys, vals) |->
        LET idx  == {i \in 1..Min(Len(keys), Len(vals)) : strip(keys[i]) = k}
            last == CHOOSE i \in idx : \A j \in idx : j <= i
        IN  strip(vals[last])]

-----------------------------------------------------------------------------
(* int() and float() *)

Digits == {"0", "1", "2", "3", "4", "5", "6", "7", "8", "9"}

DigitVal(c) ==
    CASE c = "0" -> 0 [] c = "1" -> 1 [] c = "2" -> 2 [] c = "3" -> 3
      [] c = "4" -> 4 [] c = "5" -> 5 [] c = "6" -> 6 [] c = "7" -> 7
      [] c = "8" -> 8 [] c = "9" -> 9 [] c = "A" -> 10 [] c = "B" -> 11
      [] c = "C" -> 12 [] c = "D" -> 13 [] c = "E" -> 14 [] c = "F" -> 15

HexDigits == Digits \cup {"A", "B", "C", "D", "E", "F"}

RECURSIVE NumVal(_, _)
NumVal(s, base) ==
    IF s = <<>> THEN 0
    ELSE NumVal(SubSeq(s, 1, Len(s) - 1), base) * base + DigitVal(s[Len(s)])

Unsigned(s) == IF s # <<>> /\ Head(s) \in {"-", "+"} THEN Tail(s) ELSE s
Sign(s) == IF s # <<>> /\ Head(s) = "-" THEN -1 ELSE 1

\* int(x): blanks around, an optional sign, then decimal digits
IsInt(x) ==
    LET u == Unsigned(strip(x))
    IN  u # <<>> /\ \A i \in 1..Len(u) : u[i] \in Digits

int(x) == Sign(strip(x)) * NumVal(Unsigned(strip(x)), 10)

\* int(x, 16): as int(x) with an optional "0x" after the sign and hex digits
Unprefixed(u) == IF u # <<>> /\ Head(u) = "0x" THEN Tail(u) ELSE u

IsHex(x) ==
    LET u == Unprefixed(Unsigned(strip(x)))
    IN  u # <<>> /\ \A i \in 1..Len(u) : u[i] \in HexDigits

int16(x) == Sign(strip(x)) * NumVal(Unprefixed(Unsigned(strip(x))), 16)

RECURSIVE GCD(_, _)
GCD(a, b) == IF b = 0 THEN a ELSE GCD(b, a % b)

Abs(a) == IF a < 0 THEN -a ELSE a

\* n / d in lowest terms with a positive denominator
Reduce(n, d) ==
    LET g == GCD(Abs(n), Abs(d))
        s == IF d < 0 THEN -1 ELSE 1
    IN  <<(s * n) \div g, (s * d) \div g>>

\* A Python float is a binary floating-point number: every conversion and
\* every operation yields the exact result rounded to the nearest value with
\* Precision significant bits, ties to the even one.  CPython has 53 bits;
\* the model keeps fewer so that the values stay within TLC's integers.  The
\* exponent range (overflow, subnormal values) is not modelled.
Precision == 8

\* the e with 2^(Precision-1) <= (n / d) / 2^e < 2^Precision, for n, d > 0
RECURSIVE Exponent(_, _)
Exponent(n, d) ==
    IF n >= d * 2^Precision THEN Exponent(n, 2 * d) + 1
    ELSE IF n < d * 2^(Precision - 1) THEN Exponent(2 * n, d) - 1
    ELSE 0

\* n / d rounded to an integer, a tie to the even one, for n >= 0, d > 0
RoundHalfEven(n, d) ==
    LET q == n \div d
        r == n % d
    IN  IF 2 * r > d \/ (2 * r = d /\ q % 2 = 1) THEN q + 1 ELSE q

\* the float nearest to n / d, for n, d > 0
Nearest(n, d) ==
    LET e == Exponent(n, d)
    IN  IF e >= 0
        THEN <<RoundHalfEven(n, d * 2^e) * 2^e, 1>>
        ELSE Reduce(RoundHalfEven(n * 2^(-e), d), 2^(-e))

\* the float that holds n / d
Rat(n, d) ==
    LET r == Reduce(n, d)
    IN  IF r[2] = 1 /\ Abs(r[1]) < 2^Precision THEN r
        ELSE IF r[1] < 0 THEN <<-Nearest(-r[1], r[2])[1], Nearest(-r[1], r[2])[2]>>
        ELSE Nearest(r[1], r[2])

RECURSIVE Pow10(_)
Pow10(k) == IF k = 0 THEN 1 ELSE 10 * Pow10(k - 1)

\* float(x): blanks around, an optional sign, digits with at most one "."
\* and a digit on at least one side of it
IsFloat(x) ==
    LET u    == Unsigned(strip(x))
        dots == {i \in 1..Len(u) : u[i] = "."}
    IN  /\ Cardinality(dots) <= 1
        /\ \E i \in 1..Len(u) : u[i] \in Digits
        /\ \A i \in 1..Len(u) : u[i] \in Digits \cup {"."}

float(x) ==
    LET u    == Unsigned(strip(x))
        dots == {i \in 1..Len(u) : u[i] = "."}
        dot  == IF dots = {} THEN Len(u) + 1 ELSE CHOOSE i \in dots : TRUE
        ip   == SubSeq(u, 1, dot - 1)
        fp   == SubSeq(u, dot + 1, Len(u))
    IN  Rat(Sign(strip(x)) * (NumVal(ip, 10) * Pow10(Len(fp)) + NumVal(fp, 10)),
            Pow10(Len(fp)))

\* arithmetic on floats
FromInt(n) == Rat(n, 1)
RatSub(a, b) == Rat(a[1] * b[2] - b[1] * a[2], a[2] * b[2])
RatAdd(a, b) == Rat(a[1] * b[2] + b[1] * a[2], a[2] * b[2])
RatMul(a, b) == Rat(a[1] * b[1], a[2] * b[2])
RatDiv(a, b) == Rat(a[1] * b[2], a[2] * b[1])
RatGT(a, b) == a[1] * b[2] > b[1] * a[2]
IsZero(a) == a[1] = 0

-----------------------------------------------------------------------------
(* parse_csv *)

K(w) == <<w>>
COMMA == <<",">>
NEWLINE == <<"\n">>
BLANKLINE == <<"\n", "\n">>

\* one record per line after the header line, keyed positionally
Records(lines) ==
    LET header == split(lines[1], COMMA)
    IN  [i \in 1..(Len(lines) - 1) |-> zip_dict(header, split(lines[i + 1], COMMA))]

\* section-3 rows on which "tid = int(sample['thread_id'])" raises
BadSamples(samples) ==
    {i \in 1..Len(samples) :
        \/ K("thread_id") \notin DOMAIN samples[i]
        \/ ~IsInt(samples[i][K("thread_id")])}

sample_fault(samples) ==
    IF BadSamples(samples) = {} THEN "none"
    ELSE LET i == CHOOSE k \in BadSamples(samples) : \A j \in BadSamples(samples) : k <= j
         IN  IF K("thread_id") \notin DOMAIN samples[i] THEN "KeyError" ELSE "ValueError"

\* mutant: the sample is inserted at the front of its thread's list
add_sample_prepend(pc_samples, tid, sample) ==
    [t \in (DOMAIN pc_samples) \cup {tid} |->
        IF t = tid
        THEN <<sample>> \o (IF tid \in DOMAIN pc_samples THEN pc_samples[tid] ELSE <<>>)
        ELSE pc_samples[t]]

\* if tid not in pc_samples: pc_samples[tid] = []
\* pc_samples[tid].append(sample)
add_sample(pc_samples, tid, sample) ==
    [t \in (DOMAIN pc_samples) \cup {tid} |->
        IF t = tid
        THEN Append(IF tid \in DOMAIN pc_samples THEN pc_samples[tid] ELSE <<>>, sample)
        ELSE pc_samples[t]]

RECURSIVE group_samples(_, _)
group_samples(samples, pc_samples) ==
    IF samples = <<>> THEN pc_samples
    ELSE group_samples(Tail(samples),
                       add_sample(pc_samples, int(Head(samples)[K("thread_id")]),
                                  Head(samples)))

Raised(exc) == [fault |-> exc, meta |-> <<>>, threads |-> <<>>, pc_samples |-> <<>>]

\* files: the readable files, path -> text; open() fails on any other path
parse_csv(files, filepath) ==
    IF filepath \notin DOMAIN files THEN Raised("OSError")
    ELSE
    LET sections == split(strip(files[filepath]), BLANKLINE)
        lines1   == split(strip(sections[1]), NEWLINE)
    IN
    IF Len(lines1) < 2 THEN Raised("IndexError")
    ELSE IF Len(sections) < 2 THEN Raised("IndexError")
    ELSE
    LET meta    == zip_dict(split(lines1[1], COMMA), split(lines1[2], COMMA))
        threads == Records(split(strip(sections[2]), NEWLINE))
        samples == IF Len(sections) > 2
                   THEN Records(split(strip(sections[3]), NEWLINE))
                   ELSE <<>>
    IN
    IF sample_fault(samples) # "none" THEN Raised(sample_fault(samples))
    ELSE [fault |-> "none", meta |-> meta, threads |-> threads,
          pc_samples |-> group_samples(samples, <<>>)]

-----------------------------------------------------------------------------
(* generate_gantt: field access and numeric conversion *)

\* the exception d[k] / float(d[k]) / int(d[k]) / int(d[k], 16) raises, if any
need_key(d, k) == IF k \in DOMAIN d THEN "none" ELSE "KeyError"

need_float(d, k) ==
    IF k \notin DOMAIN d THEN "KeyError"
    ELSE IF ~IsFloat(d[k]) THEN "ValueError" ELSE "none"

need_int(d, k) ==
    IF k \notin DOMAIN d THEN "KeyError"
    ELSE IF ~IsInt(d[k]) THEN "ValueError" ELSE "none"

need_hex(d, k) ==
    IF k \notin DOMAIN d THEN "KeyError"
    ELSE IF ~IsHex(d[k]) THEN "ValueError" ELSE "none"

\* the first exception raised by statements executed in order
first_fault(checks) ==
    LET bad == {i \in 1..Len(checks) : checks[i] # "none"}
    IN  IF bad = {} THEN "none"
        ELSE checks[CHOOSE i \in bad : \A j \in bad : i <= j]

\* [float(s[k]) for s in samples] and its int / hex variants
floats_fault(samples, k) ==
    first_fault([i \in 1..Len(samples) |-> need_float(samples[i], k)])
ints_fault(samples, k) ==
    first_fault([i \in 1..Len(samples) |-> need_int(samples[i], k)])
hexes_fault(samples, k) ==
    first_fault([i \in 1..Len(samples) |-> need_hex(samples[i], k)])

floats(samples, k) == [i \in 1..Len(samples) |-> float(samples[i][k])]
ints(samples, k) == [i \in 1..Len(samples) |-> int(samples[i][k])]
hexes(samples, k) == [i \in 1..Len(samples) |-> int16(samples[i][k])]

\* seq['threads'][0]
need_thread0(log) == IF Len(log.threads) = 0 THEN "IndexError" ELSE "none"

\* a % b with Python's sign convention (b # 0)
pymod(a, b) == IF b > 0 THEN a % b ELSE -((-a) % (-b))

Zero == <<0, 1>>

Mark(panel, kind, tid, val) == [panel |-> panel, kind |-> kind, tid |-> tid, val |-> val]

With(rec, new) ==
    [k \in (DOMAIN rec) \cup (DOMAIN new) |-> IF k \in DOMAIN new THEN new[k] ELSE rec[k]]

-----------------------------------------------------------------------------
(* generate_gantt: derived metrics *)

\* mutant: the ratio taken the wrong way round
speedup_inverted(wall_seq, wall_par) ==
    IF RatGT(wall_par, Zero) /\ RatGT(wall_seq, Zero) THEN RatDiv(wall_par, wall_seq) ELSE Zero

speedup(wall_seq, wall_par) ==
    IF RatGT(wall_par, Zero) THEN RatDiv(wall_seq, wall_par) ELSE Zero

\* speedup / nt * 100, for nt # 0
efficiency(sp, nt) == RatMul(RatDiv(sp, FromInt(nt)), FromInt(100))

metrics_fault(s, p) ==
    first_fault(<<
        need_int(p.meta, K("num_threads")),
        need_float(s.meta, K("wall_ms")),
        need_float(p.meta, K("wall_ms")),
        need_float(s.meta, K("total_cpu_ms")),
        need_float(p.meta, K("total_cpu_ms")),
        IF need_int(p.meta, K("num_threads")) = "none" /\ int(p.meta[K("num_threads")]) = 0
        THEN "ZeroDivisionError" ELSE "none" >>)

metrics(s, p) ==
    LET nt       == int(p.meta[K("num_threads")])
        wall_seq == float(s.meta[K("wall_ms")])
        wall_par == float(p.meta[K("wall_ms")])
    IN  [nt |-> nt, wall_seq |-> wall_seq, wall_par |-> wall_par,
         cpu_seq |-> float(s.meta[K("total_cpu_ms")]),
         cpu_par |-> float(p.meta[K("total_cpu_ms")]),
         speedup |-> speedup(wall_seq, wall_par),
         efficiency |-> efficiency(speedup(wall_seq, wall_par), nt)]

\* mutant: an empty workload counts as complete
pct_full_when_empty(p, total_px) ==
    IF total_px > 0 THEN RatMul(Rat(p, total_px), FromInt(100)) ELSE FromInt(100)

\* p / total_px * 100 if total_px > 0 else 0
pct(p, total_px) ==
    IF total_px > 0 THEN RatMul(Rat(p, total_px), FromInt(100)) ELSE Zero

\* (total_bytes / 1024 / 1024) / (wall / 1000) if wall > 0 else 0
throughput(total_bytes, wall) ==
    IF RatGT(wall, Zero)
    THEN RatDiv(Rat(total_bytes, 1024 * 1024), RatDiv(wall, FromInt(1000)))
    ELSE Zero

-----------------------------------------------------------------------------
(* generate_gantt: context-switch heuristic of panel 2B; j is 0-based *)

At(ts, j) == ts[j + 1]

gap_at(ts, j) == RatSub(At(ts, j), At(ts, j - 1))

\* mutant: the span divided by the number of gaps
avg_gap_by_gaps(ts, gap) ==
    IF Len(ts) > 1
    THEN RatDiv(RatSub(ts[Len(ts)], ts[1]), FromInt(Len(ts) - 1))
    ELSE gap

\* (times[-1] - times[0]) / len(times) if len(times) > 1 else gap
avg_gap(ts, gap) ==
    IF Len(ts) > 1
    THEN RatDiv(RatSub(ts[Len(ts)], ts[1]), FromInt(Len(ts)))
    ELSE gap

\* mutant: the threshold is twice the average gap
is_context_switch_double(gap, avg) ==
    RatGT(gap, RatMul(avg, FromInt(2))) /\ RatGT(avg, Zero)

\* gap > avg * 4 and avg > 0
is_context_switch(gap, avg) == RatGT(gap, RatMul(avg, FromInt(4))) /\ RatGT(avg, Zero)

\* the j in range(1, len(times)) at which a "CS" marker is drawn
cs_marks(ts) ==
    {j \in 1..(Len(ts) - 1) : is_context_switch(gap_at(ts, j), avg_gap(ts, gap_at(ts, j)))}

\* the i at which a sampling tick is drawn in panel 2A
sampling_ticks(ts) == {i \in 0..(Len(ts) - 1) : i % (Len(ts) \div 20 + 1) = 0}

-----------------------------------------------------------------------------
(* generate_gantt: the panels.  X_fault is the first exception the panel's  *)
(* statements raise ("none" if none); X_draw is what the panel draws.       *)

Tid(t) == int(t[K("thread_id")])
HasSamples(log, tid) == tid \in DOMAIN log.pc_samples
Times(log, tid) == floats(log.pc_samples[tid], K("timestamp_ms"))
Parent == -1

\* --- 1A: sequential Gantt
panel1a_fault(s) ==
    first_fault(<<
        need_key(s.meta, K("pid")),
        need_thread0(s),
        IF Len(s.threads) > 0 THEN need_float(s.threads[1], K("cpu_user_ms")) ELSE "none",
        IF Len(s.threads) > 0 THEN need_float(s.threads[1], K("cpu_sys_ms")) ELSE "none" >>)

panel1a_draw(s, mt) == <<Mark("1a", "bar", 0, <<Zero, mt.wall_seq>>)>>

\* --- 1B: parallel Gantt
thread1b_fault(t) ==
    first_fault(<<need_int(t, K("thread_id")), need_float(t, K("start_ms")),
                  need_float(t, K("end_ms")), need_float(t, K("cpu_user_ms"))>>)

panel1b_fault(p) ==
    first_fault([i \in 1..Len(p.threads) |-> thread1b_fault(p.threads[i])])

\* y = nt - tid
gantt_row(nt, tid) == nt - tid

\* mutant: the worker labels in ascending order, range(nt)
ylabels_ascending(nt) == <<<<"Padre">>>> \o [k \in 1..nt |-> <<"Hilo", k - 1>>]

\* ['Padre'] + [f'Hilo {i}' for i in range(nt - 1, -1, -1)]
ylabels(nt) == <<<<"Padre">>>> \o [k \in 1..nt |-> <<"Hilo", nt - k>>]

\* list(range(0, nt + 1))
yticks(nt) == [k \in 1..(nt + 1) |-> k - 1]

panel1b_draw(p, mt) ==
    [i \in 1..Len(p.threads) |->
        Mark("1b", "bar", Tid(p.threads[i]), gantt_row(mt.nt, Tid(p.threads[i])))]
    \o <<Mark("1b", "bar", Parent, 0),
         Mark("1b", "yticks", Parent, [at |-> yticks(mt.nt), text |-> ylabels(mt.nt)])>>

\* mutant: seq['pc_samples'][0] read without the "if 0 in" test
panel2a_fault_unguarded(s) ==
    IF HasSamples(s, 0) THEN floats_fault(s.pc_samples[0], K("timestamp_ms")) ELSE "KeyError"

\* --- 2A: sequential core assignment
panel2a_fault(s) ==
    IF HasSamples(s, 0) THEN floats_fault(s.pc_samples[0], K("timestamp_ms")) ELSE "none"

panel2a_draw(s, mt) ==
    (IF HasSamples(s, 0)
     THEN <<Mark("2a", "bar", 0, <<Zero, mt.wall_seq>>),
            Mark("2a", "ticks", 0, sampling_ticks(Times(s, 0)))>>
     ELSE <<>>)
    \o <<Mark("2a", "idle_cores", Parent, 1..(Min(mt.nt, 4) - 1))>>

\* --- 2B: parallel core assignment and context switches
thread2b_fault(p, t) ==
    first_fault(<<
        need_int(t, K("thread_id")), need_float(t, K("start_ms")),
        need_float(t, K("end_ms")),
        IF need_int(t, K("thread_id")) = "none" /\ HasSamples(p, Tid(t))
        THEN floats_fault(p.pc_samples[Tid(t)], K("timestamp_ms")) ELSE "none" >>)

panel2b_fault(p) ==
    first_fault([i \in 1..Len(p.threads) |-> thread2b_fault(p, p.threads[i])])

thread2b_draw(p, mt, t) ==
    <<Mark("2b", "bar", Tid(t), pymod(Tid(t), mt.nt))>>
    \o (IF HasSamples(p, Tid(t))
        THEN <<Mark("2b", "cs", Tid(t), cs_marks(Times(p, Tid(t))))>>
        ELSE <<>>)

RECURSIVE Flatten(_)
Flatten(ss) == IF ss = <<>> THEN <<>> ELSE Head(ss) \o Flatten(Tail(ss))

panel2b_draw(p, mt) ==
    Flatten([i \in 1..Len(p.threads) |-> thread2b_draw(p, mt, p.threads[i])])

\* --- 3A: sequential program counter
SetMin(S) == CHOOSE x \in S : \A y \in S : x <= y
Range(f) == {f[i] : i \in DOMAIN f}

panel3a_fault(s) ==
    IF HasSamples(s, 0)
    THEN first_fault(<<
            floats_fault(s.pc_samples[0], K("timestamp_ms")),
            hexes_fault(s.pc_samples[0], K("pc_addr")),
            need_thread0(s),
            IF Len(s.threads) > 0 THEN need_key(s.threads[1], K("tid")) ELSE "none",
            IF Len(s.threads) > 0 THEN need_key(s.threads[1], K("stack_addr")) ELSE "none" >>)
    ELSE "none"

pc_offsets(pcs_raw, pc_base) == [i \in 1..Len(pcs_raw) |-> pcs_raw[i] - pc_base]

panel3a_draw(s) ==
    IF HasSamples(s, 0)
    THEN LET pcs_raw == hexes(s.pc_samples[0], K("pc_addr"))
         IN  <<Mark("3a", "pc_curve", 0, pc_offsets(pcs_raw, SetMin(Range(pcs_raw))))>>
    ELSE <<>>

\* --- 3B: parallel program counters
\* (the keys of pc_samples are visited in ascending order here; the code
\* visits them in order of first appearance, which changes only which of
\* two malformed pc_addr values is reported)
RECURSIVE keys_fault(_, _)
keys_fault(p, keys) ==
    IF keys = {} THEN "none"
    ELSE LET k == SetMin(keys)
         IN  IF hexes_fault(p.pc_samples[k], K("pc_addr")) # "none"
             THEN hexes_fault(p.pc_samples[k], K("pc_addr"))
             ELSE keys_fault(p, keys \ {k})

thread3b_fault(p, t) ==
    first_fault(<<
        need_int(t, K("thread_id")),
        IF need_int(t, K("thread_id")) = "none" /\ HasSamples(p, Tid(t))
        THEN first_fault(<<floats_fault(p.pc_samples[Tid(t)], K("timestamp_ms")),
                           need_key(t, K("tid"))>>)
        ELSE "none" >>)

panel3b_fault(p) ==
    first_fault(<<keys_fault(p, DOMAIN p.pc_samples),
                  first_fault([i \in 1..Len(p.threads) |-> thread3b_fault(p, p.threads[i])])>>)

all_pc_base(p) ==
    LET all == UNION {Range(hexes(p.pc_samples[k], K("pc_addr"))) : k \in DOMAIN p.pc_samples}
    IN  IF all = {} THEN 0 ELSE SetMin(all)

thread3b_draw(p, t) ==
    IF HasSamples(p, Tid(t))
    THEN <<Mark("3b", "pc_curve", Tid(t),
                pc_offsets(hexes(p.pc_samples[Tid(t)], K("pc_addr")), all_pc_base(p)))>>
    ELSE <<>>

panel3b_draw(p) == Flatten([i \in 1..Len(p.threads) |-> thread3b_draw(p, p.threads[i])])

\* --- 4A: sequential progress and throughput
panel4a_fault(s) ==
    first_fault(<<
        IF HasSamples(s, 0)
        THEN first_fault(<<floats_fault(s.pc_samples[0], K("timestamp_ms")),
                           need_thread0(s),
                           IF Len(s.threads) > 0
                           THEN need_int(s.threads[1], K("pixels")) ELSE "none",
                           ints_fault(s.pc_samples[0], K("pixels_at"))>>)
        ELSE "none",
        need_thread0(s),
        IF Len(s.threads) > 0 THEN need_int(s.threads[1], K("pixels")) ELSE "none" >>)

progress(samples, total_px) ==
    [i \in 1..Len(samples) |-> pct(int(samples[i][K("pixels_at")]), total_px)]

\* int(seq['threads'][0]['pixels']) * 3
total_bytes(s) == int(s.threads[1][K("pixels")]) * 3

panel4a_draw(s, mt) ==
    (IF HasSamples(s, 0)
     THEN <<Mark("4a", "progress", 0,
                 progress(s.pc_samples[0], int(s.threads[1][K("pixels")])))>>
     ELSE <<>>)
    \o <<Mark("4a", "throughput", Parent, throughput(total_bytes(s), mt.wall_seq))>>

\* --- 4B: parallel progress and throughput
thread4b_fault(p, t) ==
    first_fault(<<
        need_int(t, K("thread_id")),
        need_int(t, K("pixels")),
        IF need_int(t, K("thread_id")) = "none" /\ HasSamples(p, Tid(t))
        THEN first_fault(<<floats_fault(p.pc_samples[Tid(t)], K("timestamp_ms")),
                           ints_fault(p.pc_samples[Tid(t)], K("pixels_at"))>>)
        ELSE "none" >>)

panel4b_fault(p) ==
    first_fault([i \in 1..Len(p.threads) |-> thread4b_fault(p, p.threads[i])])

thread4b_draw(p, t) ==
    IF HasSamples(p, Tid(t))
    THEN <<Mark("4b", "progress", Tid(t),
                progress(p.pc_samples[Tid(t)], int(t[K("pixels")])))>>
    ELSE <<>>

panel4b_draw(s, p, mt) ==
    Flatten([i \in 1..Len(p.threads) |-> thread4b_draw(p, p.threads[i])])
    \o <<Mark("4b", "throughput", Parent, throughput(total_bytes(s), mt.wall_par))>>

\* --- 5: summary panel with the metrics box
panel5_draw(mt) ==
    <<Mark("5", "metrics", Parent,
           [speedup |-> mt.speedup, efficiency |-> mt.efficiency])>>

-----------------------------------------------------------------------------
(* writing a log file: the inverse of the parser's splits *)

RECURSIVE Join(_, _)
Join(parts, sep) ==
    IF parts = <<>> THEN <<>>
    ELSE IF Len(parts) = 1 THEN parts[1]
    ELSE parts[1] \o sep \o Join(Tail(parts), sep)

\* a section is a sequence of lines, a line a sequence of cells
SectionText(lines) == Join([i \in 1..Len(lines) |-> Join(lines[i], COMMA)], NEWLINE)

\* sections: a sequence of sections; the file ends with a newline
FileText(sections) ==
    Join([i \in 1..Len(sections) |-> SectionText(sections[i])], BLANKLINE) \o NEWLINE

runVars == <<pc, argv, fs, mpl, seq, par, m, drawn, ro, events, exit, fault>>
parseVars == <<rows2, rows3, parsed>>
csVars == <<times, marks>>

RunIdle ==
    /\ pc = "idle" /\ argv = <<>> /\ fs = <<>> /\ mpl = TRUE
    /\ seq = None /\ par = None /\ m = None /\ drawn = <<>> /\ ro = {}
    /\ events = <<>> /\ exit = <<>> /\ fault = "none"

ParseIdle == rows2 = <<>> /\ rows3 = <<>> /\ parsed = None

CsIdle == times = <<>> /\ marks = None

-----------------------------------------------------------------------------
(* the log files given to a run *)

DigitGlyph(d) ==
    CASE d = 0 -> "0" [] d = 1 -> "1" [] d = 2 -> "2" [] d = 3 -> "3" [] d = 4 -> "4"
      [] d = 5 -> "5" [] d = 6 -> "6" [] d = 7 -> "7" [] d = 8 -> "8" [] d = 9 -> "9"

\* the decimal text of n >= 0
RECURSIVE Str(_)
Str(n) == IF n < 10 THEN <<DigitGlyph(n)>> ELSE Str(n \div 10) \o <<DigitGlyph(n % 10)>>

MetaHeader == <<K("pid"), K("num_threads"), K("wall_ms"), K("total_cpu_ms")>>

ThreadsHeader ==
    <<K("thread_id"), K("tid"), K("start_ms"), K("end_ms"), K("cpu_user_ms"),
      K("cpu_sys_ms"), K("pixels"), K("stack_addr")>>

SamplesHeader == <<K("thread_id"), K("timestamp_ms"), K("pc_addr"), K("pixels_at")>>

Hex(a, b) == <<"0x", a, b>>

\* a sample row: thread_id, timestamp_ms, pc_addr, pixels_at
SampleRow(tid, ts, pcaddr, px) == <<Str(tid), ts, pcaddr, Str(px)>>

SeqSamples(kind) ==
    CASE kind = "good" ->
            <<SampleRow(0, Str(0), Hex("1", "A"), 0),
              SampleRow(0, <<"5", "0", ".", "5">>, Hex("1", "C"), 4),
              SampleRow(0, Str(100), Hex("1", "B"), 8)>>
      [] kind = "badpc" ->
            <<SampleRow(0, Str(0), Hex("1", "A"), 0),
              SampleRow(0, Str(50), <<"0x", "Z">>, 4)>>
      [] kind = "other" ->
            <<SampleRow(1, Str(0), Hex("1", "A"), 0),
              SampleRow(1, Str(50), Hex("1", "C"), 4)>>

\* the sequential log: one thread, wall time and pixel total as given,
\* section 3 absent ("none") or as SeqSamples gives it
SeqLog(wall, pixels, kind) ==
    FileText(
        << <<MetaHeader, <<Str(123), Str(1), wall, Str(90)>>>>,
           <<ThreadsHeader,
             <<Str(0), Str(1001), Str(0), wall, Str(80), Str(10), pixels, Hex("7", "F")>>>> >>
        \o (IF kind = "none" THEN <<>> ELSE <<<<SamplesHeader>> \o SeqSamples(kind)>>))

ParSamples(kind) ==
    CASE kind = "good" ->
            <<SampleRow(0, Str(0), Hex("2", "A"), 0),
              SampleRow(1, Str(1), Hex("2", "B"), 0),
              SampleRow(0, Str(1), Hex("2", "C"), 1),
              SampleRow(0, Str(2), Hex("2", "D"), 2),
              SampleRow(0, Str(3), Hex("2", "E"), 3),
              SampleRow(1, Str(20), Hex("2", "F"), 4),
              SampleRow(0, Str(23), Hex("1", "F"), 4)>>
      [] kind = "badts" ->
            <<SampleRow(0, Str(0), Hex("2", "A"), 0),
              SampleRow(1, <<"1", ".", "2", ".", "3">>, Hex("2", "B"), 0)>>

\* the parallel log: two threads, num_threads, wall time and the first
\* thread's pixel total as given
ParLog(nt, wall, pixels, kind) ==
    FileText(
        << <<MetaHeader, <<Str(77), nt, wall, Str(40)>>>>,
           <<ThreadsHeader,
             <<Str(0), Str(2001), Str(0), Str(20), Str(18), Str(1), pixels, Hex("8", "F")>>,
             <<Str(1), Str(2002), Str(1), Str(25), Str(20), Str(1), Str(4), Hex("9", "F")>>>> >>
        \o (IF kind = "none" THEN <<>> ELSE <<<<SamplesHeader>> \o ParSamples(kind)>>))

\* malformed logs: an empty file, a file of one section, a metadata section
\* without wall_ms
EmptyLog == <<>>
MetaOnlyLog == FileText(<< <<MetaHeader, <<Str(123), Str(1), Str(100), Str(90)>>>> >>)
NoWallLog ==
    FileText(<< << <<K("pid"), K("num_threads"), K("total_cpu_ms")>>,
                   <<Str(123), Str(2), Str(90)>> >>,
                <<ThreadsHeader,
                  <<Str(0), Str(1001), Str(0), Str(9), Str(8), Str(1), Str(8), Hex("7", "F")>>>> >>)

\* every wall time with every section 3, and a zero pixel total with each
SeqLogs ==
    {SeqLog(w, Str(8), k) : w \in {Str(100), Str(0), <<"a">>},
                            k \in {"none", "good", "badpc", "other"}}
    \cup {SeqLog(Str(100), Str(0), k) : k \in {"none", "good"}}
    \cup {EmptyLog, MetaOnlyLog, NoWallLog}

\* every num_threads with every wall time, and every section 3 with every
\* pixel total and wall time
ParLogs ==
    {ParLog(nt, w, Str(4), "good") : nt \in {Str(3), Str(2), Str(1), Str(0), <<"x">>},
                                     w \in {Str(25), Str(0), <<"-", "5">>}}
    \cup {ParLog(Str(2), w, px, k) : w \in {Str(25), Str(0)},
                                     px \in {Str(4), Str(0)},
                                     k \in {"none", "good", "badts"}}
    \cup {ParLog(Str(0), Str(0), Str(4), "none"), MetaOnlyLog}

GoodSeqLog == SeqLog(Str(100), Str(8), "good")
GoodParLog == ParLog(Str(2), Str(25), Str(4), "good")

-----------------------------------------------------------------------------
(* __main__ and generate_gantt as a process *)

MaxArgs == 4

ArgName(i) ==
    CASE i = 1 -> "seq.csv" [] i = 2 -> "par.csv" [] i = 3 -> "out.png" [] OTHER -> "extra"

Files(S, P) ==
    {[p \in {"seq.csv", "par.csv"} |-> IF p = "seq.csv" THEN s ELSE q] : s \in S, q \in P}
    \cup {[p \in {"par.csv"} |-> q] : q \in P}
    \cup {[p \in {"seq.csv"} |-> s] : s \in S}

Init ==
    /\ ParseIdle /\ CsIdle
    /\ pc = "main"
    /\ argv \in {[i \in 1..n |-> ArgName(i)] : n \in 0..MaxArgs}
    /\ mpl \in BOOLEAN
    /\ fs \in IF Len(argv) >= 3 /\ mpl
              THEN Files(SeqLogs, ParLogs)
              ELSE Files({GoodSeqLog}, {GoodParLog})
    /\ ro \in {{}, {"out.png"}}
    /\ seq = None /\ par = None /\ m = None /\ drawn = <<>>
    /\ events = <<>> /\ exit = <<>> /\ fault = "none"

\* an uncaught exception: traceback, exit status 1
Raise(exc) ==
    /\ pc' = "exited"
    /\ fault' = exc
    /\ exit' = <<1>>
    /\ events' = Append(events, <<"print", "traceback">>)

\* mutant: the argument check off by one (len(sys.argv) < 3)
Main_offByOne ==
    /\ pc = "main"
    /\ IF Len(argv) + 1 < 3
       THEN /\ events' = Append(events, <<"print", "usage">>)
            /\ exit' = <<1>>
            /\ pc' = "exited"
       ELSE /\ pc' = "import"
            /\ UNCHANGED <<events, exit>>
    /\ UNCHANGED <<argv, fs, mpl, seq, par, m, drawn, ro, fault>>
    /\ UNCHANGED parseVars /\ UNCHANGED csVars

\* mutant: the argument check strict (len(sys.argv) != 4)
Main_exactlyThree ==
    /\ pc = "main"
    /\ IF Len(argv) + 1 # 4
       THEN /\ events' = Append(events, <<"print", "usage">>)
            /\ exit' = <<1>>
            /\ pc' = "exited"
       ELSE /\ pc' = "import"
            /\ UNCHANGED <<events, exit>>
    /\ UNCHANGED <<argv, fs, mpl, seq, par, m, drawn, ro, fault>>
    /\ UNCHANGED parseVars /\ UNCHANGED csVars

\* if len(sys.argv) < 4: usage, sys.exit(1); else generate_gantt(argv[1..3])
Main ==
    /\ pc = "main"
    /\ IF Len(argv) + 1 < 4
       THEN /\ events' = Append(events, <<"print", "usage">>)
            /\ exit' = <<1>>
            /\ pc' = "exited"
       ELSE /\ pc' = "import"
            /\ UNCHANGED <<events, exit>>
    /\ UNCHANGED <<argv, fs, mpl, seq, par, m, drawn, ro, fault>>
    /\ UNCHANGED parseVars /\ UNCHANGED csVars

\* try: import matplotlib ... except ImportError: print; sys.exit(1)
Import ==
    /\ pc = "import"
    /\ IF mpl
       THEN /\ events' = Append(events, <<"import", "matplotlib">>)
            /\ pc' = "parse_seq"
            /\ UNCHANGED exit
       ELSE /\ events' = events \o <<<<"import", "matplotlib">>, <<"print", "mpl_error">>>>
            /\ exit' = <<1>>
            /\ pc' = "exited"
    /\ UNCHANGED <<argv, fs, mpl, seq, par, m, drawn, ro, fault>>
    /\ UNCHANGED parseVars /\ UNCHANGED csVars

\* seq = parse_csv(seq_csv)
ParseSeq ==
    /\ pc = "parse_seq"
    /\ LET r == parse_csv(fs, argv[1])
       IN  IF r.fault # "none"
           THEN /\ pc' = "exited" /\ fault' = r.fault /\ exit' = <<1>>
                /\ events' = events \o <<<<"open", argv[1]>>, <<"print", "traceback">>>>
                /\ UNCHANGED seq
           ELSE /\ seq' = r
                /\ pc' = "parse_par"
                /\ events' = Append(events, <<"open", argv[1]>>)
                /\ UNCHANGED <<exit, fault>>
    /\ UNCHANGED <<argv, fs, mpl, par, m, drawn, ro>>
    /\ UNCHANGED parseVars /\ UNCHANGED csVars

\* mutant: the parallel log read from the sequential path
ParsePar_seqPath ==
    /\ pc = "parse_par"
    /\ LET r == parse_csv(fs, argv[1])
       IN  IF r.fault # "none"
           THEN /\ pc' = "exited" /\ fault' = r.fault /\ exit' = <<1>>
                /\ events' = events \o <<<<"open", argv[1]>>, <<"print", "traceback">>>>
                /\ UNCHANGED par
           ELSE /\ par' = r
                /\ pc' = "metrics"
                /\ events' = Append(events, <<"open", argv[1]>>)
                /\ UNCHANGED <<exit, fault>>
    /\ UNCHANGED <<argv, fs, mpl, seq, m, drawn, ro>>
    /\ UNCHANGED parseVars /\ UNCHANGED csVars

\* par = parse_csv(par_csv)
ParsePar ==
    /\ pc = "parse_par"
    /\ LET r == parse_csv(fs, argv[2])
       IN  IF r.fault # "none"
           THEN /\ pc' = "exited" /\ fault' = r.fault /\ exit' = <<1>>
                /\ events' = events \o <<<<"open", argv[2]>>, <<"print", "traceback">>>>
                /\ UNCHANGED par
           ELSE /\ par' = r
                /\ pc' = "metrics"
                /\ events' = Append(events, <<"open", argv[2]>>)
                /\ UNCHANGED <<exit, fault>>
    /\ UNCHANGED <<argv, fs, mpl, seq, m, drawn, ro>>
    /\ UNCHANGED parseVars /\ UNCHANGED csVars

\* nt, wall_seq, wall_par, cpu_seq, cpu_par, speedup, efficiency
Metrics ==
    /\ pc = "metrics"
    /\ IF metrics_fault(seq, par) # "none"
       THEN Raise(metrics_fault(seq, par)) /\ UNCHANGED m
       ELSE /\ m' = metrics(seq, par)
            /\ pc' = "panel1a"
            /\ UNCHANGED <<events, exit, fault>>
    /\ UNCHANGED <<argv, fs, mpl, seq, par, drawn, ro>>
    /\ UNCHANGED parseVars /\ UNCHANGED csVars

\* mutant: the figure is saved in a finally block, so a panel that raises
\* leaves the partly drawn image at the output path
Panel_savesOnRaise(here, next, flt, drawing) ==
    /\ pc = here
    /\ IF flt # "none"
       THEN /\ Raise(flt) /\ UNCHANGED drawn
            /\ fs' = [p \in (DOMAIN fs) \cup {argv[3]} |->
                        IF p = argv[3] THEN <<"PNG">> ELSE fs[p]]
       ELSE /\ drawn' = drawn \o drawing
            /\ pc' = next
            /\ UNCHANGED <<events, exit, fault, fs>>
    /\ UNCHANGED <<argv, mpl, seq, par, m, ro>>
    /\ UNCHANGED parseVars /\ UNCHANGED csVars

\* one panel: it raises, or draws and control moves on
Panel(here, next, flt, drawing) ==
    /\ pc = here
    /\ IF flt # "none"
       THEN Raise(flt) /\ UNCHANGED drawn
       ELSE /\ drawn' = drawn \o drawing
            /\ pc' = next
            /\ UNCHANGED <<events, exit, fault>>
    /\ UNCHANGED <<argv, fs, mpl, seq, par, m, ro>>
    /\ UNCHANGED parseVars /\ UNCHANGED csVars

Panel1A == Panel("panel1a", "panel1b", panel1a_fault(seq), panel1a_draw(seq, m))
Panel1B == Panel("panel1b", "panel2a", panel1b_fault(par), panel1b_draw(par, m))
Panel2A == Panel("panel2a", "panel2b", panel2a_fault(seq), panel2a_draw(seq, m))
Panel2B == Panel("panel2b", "panel3a", panel2b_fault(par), panel2b_draw(par, m))
Panel3A == Panel("panel3a", "panel3b", panel3a_fault(seq), panel3a_draw(seq))
Panel3B == Panel("panel3b", "panel4a", panel3b_fault(par), panel3b_draw(par))
Panel4A == Panel("panel4a", "panel4b", panel4a_fault(seq), panel4a_draw(seq, m))
Panel4B == Panel("panel4b", "panel5", panel4b_fault(par), panel4b_draw(seq, par, m))
Panel5 == Panel("panel5", "savefig", "none", panel5_draw(m))

Image == <<"PNG">>

\* plt.savefig(output_path, ...)
Savefig ==
    /\ pc = "savefig"
    /\ IF argv[3] \in ro
       THEN Raise("OSError") /\ UNCHANGED fs
       ELSE /\ fs' = [p \in (DOMAIN fs) \cup {argv[3]} |-> IF p = argv[3] THEN Image ELSE fs[p]]
            /\ events' = Append(events, <<"write", argv[3]>>)
            /\ pc' = "print"
            /\ UNCHANGED <<exit, fault>>
    /\ UNCHANGED <<argv, mpl, seq, par, m, drawn, ro>>
    /\ UNCHANGED parseVars /\ UNCHANGED csVars

\* print("Diagrama de Gantt generado: ...")
PrintDone ==
    /\ pc = "print"
    /\ events' = Append(events, <<"print", "success">>)
    /\ pc' = "return"
    /\ UNCHANGED <<argv, fs, mpl, seq, par, m, drawn, ro, exit, fault>>
    /\ UNCHANGED parseVars /\ UNCHANGED csVars

\* generate_gantt returns and the script ends: exit status 0
Return ==
    /\ pc = "return"
    /\ exit' = <<0>>
    /\ pc' = "exited"
    /\ UNCHANGED <<argv, fs, mpl, seq, par, m, drawn, ro, events, fault>>
    /\ UNCHANGED parseVars /\ UNCHANGED csVars

Next ==
    \/ Main \/ Import \/ ParseSeq \/ ParsePar \/ Metrics
    \/ Panel1A \/ Panel1B \/ Panel2A \/ Panel2B
    \/ Panel3A \/ Panel3B \/ Panel4A \/ Panel4B \/ Panel5
    \/ Savefig \/ PrintDone \/ Return

Spec == Init /\ [][Next]_vars

-----------------------------------------------------------------------------
(* properties of a run *)

InputPaths == {"seq.csv", "par.csv"}

HasEvent(e) == \E i \in 1..Len(events) : events[i] = e
EventsOf(op) == {i \in 1..Len(events) : events[i][1] = op}
Written == EventsOf("write") # {}
Failed == exit # <<>> /\ exit # <<0>>
Usage == <<"print", "usage">>
ImportMpl == <<"import", "matplotlib">>
MplError == <<"print", "mpl_error">>
Success == <<"print", "success">>

RenderFaults ==
    <<metrics_fault(seq, par), panel1a_fault(seq), panel1b_fault(par),
      panel2a_fault(seq), panel2b_fault(par), panel3a_fault(seq),
      panel3b_fault(par), panel4a_fault(seq), panel4b_fault(par)>>

\* C1: a run that ends in a failure never writes the output image, and the
\* single write happens only after both logs have been parsed and every
\* numeric conversion and derived metric of the renderer has succeeded.
C1_NoOutputOnFailure ==
    /\ Failed => ~Written /\ DOMAIN fs \subseteq InputPaths
    /\ DOMAIN fs \subseteq InputPaths \/ Written
    /\ Written =>
        /\ Cardinality(EventsOf("write")) = 1
        /\ seq # None /\ par # None /\ m # None
        /\ first_fault(RenderFaults) = "none"
        /\ \E i \in 1..Len(drawn) : drawn[i].panel = "5"
        /\ ~Failed

\* a numeric conversion fails after four panels have been drawn
C1_Witness ==
    /\ Failed /\ fault = "ValueError"
    /\ \E i \in 1..Len(drawn) : drawn[i].panel = "2b"
    /\ "out.png" \notin ro
    /\ "out.png" \notin DOMAIN fs

\* C2: with 0, 1 or 2 positional arguments the run prints the usage line and
\* exits with status 1; no input file is opened, matplotlib is not imported
\* and no output file is written.
C2_TooFewArgsUsage ==
    Len(argv) < 3 =>
        /\ pc \in {"main", "exited"}
        /\ pc = "exited" => events = <<Usage>> /\ exit = <<1>> /\ fault = "none"
        /\ EventsOf("open") = {} /\ EventsOf("import") = {} /\ EventsOf("write") = {}
        /\ seq = None /\ par = None
        /\ DOMAIN fs \subseteq InputPaths

\* two arguments naming existing logs, matplotlib available
C2_Witness ==
    /\ Len(argv) = 2 /\ pc = "exited" /\ mpl
    /\ DOMAIN fs = InputPaths
    /\ events = <<Usage>>

\* C3 as stated: a run gets past the argument check only with exactly three
\* positional arguments; every other count is rejected with the usage line.
C3_OnlyExactlyThreeAccepted ==
    pc # "main" => (HasEvent(Usage) <=> Len(argv) # 3)

\* C3 amended: a run gets past the argument check iff at least three
\* positional arguments were supplied; fewer are rejected with the usage line
\* and status 1; of more than three only the first three are used.
C3_AtLeastThreeAccepted ==
    pc # "main" =>
        /\ HasEvent(Usage) <=> Len(argv) < 3
        /\ HasEvent(Usage) => exit = <<1>>
        /\ ~HasEvent(Usage) => pc = "import" \/ HasEvent(ImportMpl)
        /\ \A i \in EventsOf("open") : events[i][2] \in {argv[1], argv[2]}
        /\ \A i \in EventsOf("write") : events[i][2] = argv[3]

\* four arguments: the run renders and writes the third
C3_Witness ==
    /\ Len(argv) = 4 /\ exit = <<0>>
    /\ HasEvent(<<"write", "out.png">>)

\* C4 as stated: both logs have been parsed before the charting capability
\* is loaded or checked, so a missing capability is reported only after both
\* files parsed.
C4_ParsedBeforeCapability ==
    HasEvent(ImportMpl) => seq # None /\ par # None

\* C4 amended: the steps occur in the order capability load, parse of the
\* sequential log, parse of the parallel log, metrics and panels, image
\* write, success message, exit status 0; the capability is loaded before
\* any file is opened, so a missing capability is reported with no file
\* opened.
C4_CapabilityThenParseThenRender ==
    /\ exit = <<0>> =>
        events = <<ImportMpl, <<"open", argv[1]>>, <<"open", argv[2]>>,
                   <<"write", argv[3]>>, Success>>
    /\ \A i \in EventsOf("open") : i > 1 /\ events[1] = ImportMpl
    /\ HasEvent(MplError) => events = <<ImportMpl, MplError>> /\ exit = <<1>>
    /\ par # None => seq # None
    /\ m # None => par # None
    /\ drawn # <<>> => m # None
    /\ Written => \E i \in 1..Len(drawn) : drawn[i].panel = "5"
    /\ HasEvent(Success) => Written
    /\ exit = <<0>> => HasEvent(Success)

\* a complete run
C4_Witness ==
    /\ exit = <<0>> /\ Len(argv) = 3
    /\ seq.pc_samples # <<>> /\ par.pc_samples # <<>>

SampleKinds == {"ticks", "cs", "pc_curve", "progress"}
SeqPanels == {"1a", "2a", "3a", "4a"}
ParPanels == {"1b", "2b", "3b", "4b"}

\* the file at path holds sections 1 and 2 and no section 3
TwoSections(path) ==
    path \in DOMAIN fs /\ Len(split(strip(fs[path]), BLANKLINE)) = 2

\* sections 1 and 2 hold every field the renderer reads, as numbers where
\* it converts them
WellFormedSeq(s) ==
    /\ K("pid") \in DOMAIN s.meta
    /\ need_float(s.meta, K("wall_ms")) = "none"
    /\ need_float(s.meta, K("total_cpu_ms")) = "none"
    /\ Len(s.threads) > 0
    /\ need_float(s.threads[1], K("cpu_user_ms")) = "none"
    /\ need_float(s.threads[1], K("cpu_sys_ms")) = "none"
    /\ need_int(s.threads[1], K("pixels")) = "none"
    /\ {K("tid"), K("stack_addr")} \subseteq DOMAIN s.threads[1]

WellFormedPar(p) ==
    /\ need_int(p.meta, K("num_threads")) = "none"
    /\ int(p.meta[K("num_threads")]) # 0
    /\ need_float(p.meta, K("wall_ms")) = "none"
    /\ need_float(p.meta, K("total_cpu_ms")) = "none"
    /\ \A i \in 1..Len(p.threads) :
        /\ need_int(p.threads[i], K("thread_id")) = "none"
        /\ need_float(p.threads[i], K("start_ms")) = "none"
        /\ need_float(p.threads[i], K("end_ms")) = "none"
        /\ need_float(p.threads[i], K("cpu_user_ms")) = "none"
        /\ need_int(p.threads[i], K("pixels")) = "none"
        /\ K("tid") \in DOMAIN p.threads[i]

SamplesFine(log) ==
    \A k \in DOMAIN log.pc_samples : \A i \in 1..Len(log.pc_samples[k]) :
        /\ need_float(log.pc_samples[k][i], K("timestamp_ms")) = "none"
        /\ need_hex(log.pc_samples[k][i], K("pc_addr")) = "none"
        /\ need_int(log.pc_samples[k][i], K("pixels_at")) = "none"

SampleMarks(panels) ==
    {i \in 1..Len(drawn) : drawn[i].panel \in panels /\ drawn[i].kind \in SampleKinds}

\* C7: a log with only sections 1 and 2 parses with pc_samples empty; the
\* renderer then skips every step that reads that log's samples (sampling
\* ticks, context switches, PC curves, progress curves), and when the fields
\* of sections 1 and 2 are well formed the run ends with the image written.
C7_NoSection3Renders ==
    /\ HasEvent(<<"open", "seq.csv">>) /\ TwoSections("seq.csv") =>
            seq # None /\ seq.pc_samples = <<>>
    /\ HasEvent(<<"open", "par.csv">>) /\ TwoSections("par.csv") =>
            par # None /\ par.pc_samples = <<>>
    /\ seq # None /\ seq.pc_samples = <<>> => SampleMarks(SeqPanels) = {}
    /\ par # None /\ par.pc_samples = <<>> => SampleMarks(ParPanels) = {}
    /\ ( /\ pc = "exited" /\ seq # None /\ par # None
         /\ seq.pc_samples = <<>> \/ par.pc_samples = <<>>
         /\ WellFormedSeq(seq) /\ WellFormedPar(par)
         /\ SamplesFine(seq) /\ SamplesFine(par)
         /\ argv[3] \notin ro )
       => exit = <<0>> /\ fault = "none" /\ argv[3] \in DOMAIN fs

\* neither log has a section 3 and the image is written
C7_Witness ==
    /\ exit = <<0>>
    /\ TwoSections("seq.csv") /\ TwoSections("par.csv")
    /\ seq.pc_samples = <<>> /\ par.pc_samples = <<>>
    /\ "out.png" \in DOMAIN fs

\* C8: speedup is wall_seq / wall_par when wall_par > 0 (100 and 25 give 4)
\* and 0 when wall_par is 0 or negative, and computing it never faults.
C8_Speedup ==
    /\ m # None =>
        /\ RatGT(m.wall_par, Zero) => RatMul(m.speedup, m.wall_par) = m.wall_seq
        /\ ~RatGT(m.wall_par, Zero) => m.speedup = Zero
        /\ m.wall_seq = <<100, 1>> /\ m.wall_par = <<25, 1>> => m.speedup = <<4, 1>>
    /\ ( /\ seq # None /\ par # None /\ pc # "metrics"
         /\ need_int(par.meta, K("num_threads")) = "none"
         /\ int(par.meta[K("num_threads")]) # 0
         /\ need_float(seq.meta, K("wall_ms")) = "none"
         /\ need_float(par.meta, K("wall_ms")) = "none"
         /\ need_float(seq.meta, K("total_cpu_ms")) = "none"
         /\ need_float(par.meta, K("total_cpu_ms")) = "none" )
       => m # None /\ fault # "ZeroDivisionError"

\* wall times 100 and 25
C8_Witness ==
    /\ m # None
    /\ m.wall_seq = <<100, 1>> /\ m.wall_par = <<25, 1>>
    /\ m.speedup = <<4, 1>>

MarksOf(panel, kind) == {i \in 1..Len(drawn) : drawn[i].panel = panel /\ drawn[i].kind = kind}
AllZero(vals) == \A i \in 1..Len(vals) : vals[i] = Zero

\* C9: wall_par = 0 gives speedup 0 and parallel throughput 0, wall_seq = 0
\* gives sequential throughput 0, a pixel total of 0 gives 0 for every
\* progress percentage of the thread, none of them faulting; num_threads = 0
\* makes the efficiency computation fault, also when speedup is 0, and the
\* run aborts.
C9_DegenerateDivisors ==
    /\ m # None /\ IsZero(m.wall_par) =>
        /\ m.speedup = Zero
        /\ \A i \in MarksOf("4b", "throughput") : drawn[i].val = Zero
    /\ m # None /\ IsZero(m.wall_seq) =>
        \A i \in MarksOf("4a", "throughput") : drawn[i].val = Zero
    /\ \A i \in MarksOf("4a", "progress") :
        int(seq.threads[1][K("pixels")]) = 0 => AllZero(drawn[i].val)
    /\ \A i \in MarksOf("4b", "progress") : \A k \in 1..Len(par.threads) :
        Tid(par.threads[k]) = drawn[i].tid /\ int(par.threads[k][K("pixels")]) = 0
            => AllZero(drawn[i].val)
    /\ fault = "ZeroDivisionError" =>
        need_int(par.meta, K("num_threads")) = "none" /\ int(par.meta[K("num_threads")]) = 0
    /\ ( /\ seq # None /\ par # None /\ pc # "metrics"
         /\ need_int(par.meta, K("num_threads")) = "none"
         /\ int(par.meta[K("num_threads")]) = 0
         /\ need_float(seq.meta, K("wall_ms")) = "none"
         /\ need_float(par.meta, K("wall_ms")) = "none"
         /\ need_float(seq.meta, K("total_cpu_ms")) = "none"
         /\ need_float(par.meta, K("total_cpu_ms")) = "none" )
       => /\ fault = "ZeroDivisionError" /\ exit = <<1>> /\ pc = "exited"
          /\ m = None /\ drawn = <<>> /\ ~Written

\* num_threads = 0 with wall_par = 0 (speedup 0): the run aborts
C9_Witness ==
    /\ fault = "ZeroDivisionError" /\ exit = <<1>>
    /\ int(par.meta[K("num_threads")]) = 0
    /\ IsZero(float(par.meta[K("wall_ms")]))

\* the three guarded divisors at once: both wall times 0 and a thread with
\* pixel total 0, the run ending with the image written
C9_GuardedWitness ==
    /\ exit = <<0>>
    /\ IsZero(m.wall_par) /\ IsZero(m.wall_seq)
    /\ \E i \in MarksOf("4b", "progress") : Len(drawn[i].val) > 1 /\ AllZero(drawn[i].val)
    /\ \E i \in MarksOf("4b", "throughput") : drawn[i].val = Zero

\* C11 as stated: in every successful render panel 2A holds the Core 0 bar
\* spanning [0, wall_seq], whether or not the sequential log has samples for
\* thread 0; the sampling ticks are drawn exactly when it has them.
C11_Core0BarAlways ==
    exit = <<0>> =>
        /\ \E i \in MarksOf("2a", "bar") :
            drawn[i].tid = 0 /\ drawn[i].val = <<Zero, m.wall_seq>>
        /\ MarksOf("2a", "ticks") # {} <=> HasSamples(seq, 0)

\* a successful render of a sequential log without samples for thread 0:
\* the idle-core bars of panel 2A are drawn, the Core 0 bar is not
C11_Witness ==
    /\ exit = <<0>> /\ "out.png" \in DOMAIN fs
    /\ ~HasSamples(seq, 0)
    /\ MarksOf("2a", "idle_cores") # {}
    /\ MarksOf("2a", "bar") = {}

\* the label set_yticklabels puts on the tick at row r
LabelAt(v, r) == v.text[CHOOSE k \in 1..Len(v.at) : v.at[k] = r]
Hilo(i) == <<"Hilo", i>>
WorkerBars == {i \in MarksOf("1b", "bar") : drawn[i].tid # Parent}

\* C12 as stated: thread i is drawn at row nt - i, the tick at row 0 is
\* labelled "Padre", and the worker labels read in descending thread-index
\* order from the top row down: row nt carries "Hilo nt-1", row 1 "Hilo 0".
C12_LabelsDescendFromTop ==
    /\ \A i \in WorkerBars : drawn[i].val = m.nt - drawn[i].tid
    /\ \A i \in MarksOf("1b", "yticks") :
        /\ LabelAt(drawn[i].val, 0) = <<"Padre">>
        /\ \A r \in 1..m.nt : LabelAt(drawn[i].val, r) = Hilo(r - 1)

\* C12 amended: thread i is drawn at row nt - i, the ticks are at rows
\* 0..nt, the tick at row 0 is labelled "Padre" and the tick at row r >= 1
\* "Hilo nt-r": the worker labels read in ascending thread-index order from
\* the top row ("Hilo 0" at row nt) down to row 1 ("Hilo nt-1"), so that
\* the bar of every thread i in 0..nt-1 lies on the row labelled "Hilo i".
C12_LabelsAscendFromTop ==
    /\ \A i \in WorkerBars : drawn[i].val = m.nt - drawn[i].tid
    /\ \A i \in MarksOf("1b", "yticks") :
        /\ drawn[i].val.at = [k \in 1..(m.nt + 1) |-> k - 1]
        /\ Len(drawn[i].val.text) = m.nt + 1
        /\ LabelAt(drawn[i].val, 0) = <<"Padre">>
        /\ \A r \in 1..m.nt : LabelAt(drawn[i].val, r) = Hilo(m.nt - r)
        /\ LabelAt(drawn[i].val, m.nt) = Hilo(0)
        /\ \A b \in WorkerBars :
            drawn[b].tid \in 0..(m.nt - 1) =>
                LabelAt(drawn[i].val, drawn[b].val) = Hilo(drawn[b].tid)

\* three threads declared: thread 0 on the top row 3 under "Hilo 0",
\* thread 1 on row 2, and "Hilo 2" on row 1
C12_Witness ==
    /\ m # None /\ m.nt = 3
    /\ \E i \in WorkerBars : drawn[i].tid = 0 /\ drawn[i].val = 3
    /\ \E i \in WorkerBars : drawn[i].tid = 1 /\ drawn[i].val = 2
    /\ \E i \in MarksOf("1b", "yticks") :
        /\ LabelAt(drawn[i].val, 3) = Hilo(0)
        /\ LabelAt(drawn[i].val, 1) = Hilo(2)

-----------------------------------------------------------------------------
(* parse_csv applied to written log files *)

MaxThreadRows == 2
MaxSampleRows == 3

SeqsUpTo(S, n) == UNION {[1..k -> S] : k \in 0..n}

MetaSection ==
    << <<K("pid"), K("wall_ms")>>, <<<<"1", "2", "3">>, <<"4", "5", ".", "5">>>> >>

ThreadHeader == <<K("thread_id"), <<" ", "tid">>, K("pixels")>>

\* rows with as many values as headers, fewer, and more
ThreadRowMenu ==
    { << <<"0">>, <<"7">>, <<"5">> >>,
      << <<"1">>, <<"8", " ">> >>,
      << <<"2">>, <<"9">>, <<"6">>, <<"x">> >> }

SampleHeaderMenu ==
    { <<K("thread_id"), K("timestamp_ms")>>,
      <<K("timestamp_ms"), <<" ", "thread_id">>>> }

SampleRowMenu ==
    { << <<"0">>, <<"1">> >>,
      << <<"1">>, <<"2">> >>,
      << <<" ", "0", "1">>, <<"3">> >>,
      << <<"x">>, <<"0">> >>,
      << <<"0">> >> }

InitParse ==
    /\ RunIdle /\ CsIdle
    /\ rows2 \in {<<ThreadHeader>> \o r : r \in SeqsUpTo(ThreadRowMenu, MaxThreadRows)}
    /\ rows3 \in {<<>>} \cup
                 {<<h>> \o r : h \in SampleHeaderMenu,
                               r \in SeqsUpTo(SampleRowMenu, MaxSampleRows)}
    /\ parsed = None

WrittenFile ==
    FileText(<<MetaSection, rows2>> \o (IF rows3 = <<>> THEN <<>> ELSE <<rows3>>))

Parse ==
    /\ parsed = None
    /\ parsed' = parse_csv([p \in {"log.csv"} |-> WrittenFile], "log.csv")
    /\ UNCHANGED <<rows2, rows3>>
    /\ UNCHANGED runVars /\ UNCHANGED csVars

NextParse == Parse

SpecParse == InitParse /\ [][NextParse]_vars

\* the section-3 data rows as written, and the column holding thread_id
SampleRows == IF rows3 = <<>> THEN <<>> ELSE Tail(rows3)
TidColumn == CHOOSE j \in 1..Len(rows3[1]) : strip(rows3[1][j]) = K("thread_id")
RowTid(i) == int(SampleRows[i][TidColumn])
RowRecord(i) == zip_dict(rows3[1], SampleRows[i])

\* the rows of thread t, in file order, among rows i..Len(SampleRows)
RECURSIVE RowsOf(_, _)
RowsOf(t, i) ==
    IF i > Len(SampleRows) THEN <<>>
    ELSE (IF RowTid(i) = t THEN <<RowRecord(i)>> ELSE <<>>) \o RowsOf(t, i + 1)

RECURSIVE SumLen(_, _)
SumLen(f, D) ==
    IF D = {} THEN 0
    ELSE LET t == CHOOSE x \in D : TRUE IN Len(f[t]) + SumLen(f, D \ {t})

ParsedOk == parsed # None /\ parsed.fault = "none"

\* C5: after a successful parse_csv, pc_samples[t] is exactly the section-3
\* data rows whose thread_id parses to t, in file order; t is a key iff some
\* row has that thread_id; the group lengths sum to the number of data rows.
C5_SamplesGroupedInOrder ==
    ParsedOk =>
        /\ DOMAIN parsed.pc_samples = {RowTid(i) : i \in 1..Len(SampleRows)}
        /\ \A t \in DOMAIN parsed.pc_samples : parsed.pc_samples[t] = RowsOf(t, 1)
        /\ SumLen(parsed.pc_samples, DOMAIN parsed.pc_samples) = Len(SampleRows)

\* thread ids 0 and 1 interleaved (0, 1, 0) and grouped
C5_Witness ==
    /\ ParsedOk
    /\ Len(SampleRows) = 3
    /\ RowTid(1) = 0 /\ RowTid(2) = 1 /\ RowTid(3) = 0
    /\ RowRecord(1) # RowRecord(3)
    /\ Len(parsed.pc_samples[0]) = 2 /\ Len(parsed.pc_samples[1]) = 1

ThreadRows == Tail(rows2)

\* C6: parse_csv yields one thread record per section-2 data row, in file
\* order; record i pairs header j with value j of row i for j up to the
\* shorter of the two lists, a short row lacking the trailing keys and extra
\* values being dropped, and no row shape makes the parse fail.
C6_ThreadsZipPositionally ==
    parsed # None =>
        /\ rows3 = <<>> => parsed.fault = "none"
        /\ parsed.fault = "none" =>
            /\ Len(parsed.threads) = Len(ThreadRows)
            /\ \A i \in 1..Len(ThreadRows) :
                LET n == Min(Len(ThreadHeader), Len(ThreadRows[i]))
                IN  /\ DOMAIN parsed.threads[i] = {strip(ThreadHeader[j]) : j \in 1..n}
                    /\ \A j \in 1..n :
                        parsed.threads[i][strip(ThreadHeader[j])] = strip(ThreadRows[i][j])

\* a short row followed by a row with an extra value
C6_Witness ==
    /\ ParsedOk
    /\ Len(ThreadRows) = 2
    /\ Len(ThreadRows[1]) < Len(ThreadHeader)
    /\ Len(ThreadRows[2]) > Len(ThreadHeader)
    /\ K("pixels") \notin DOMAIN parsed.threads[1]
    /\ parsed.threads[2][K("pixels")] = <<"6">>

-----------------------------------------------------------------------------
(* the context-switch heuristic applied to one thread's sample timestamps *)

MaxSamples == 5
MaxTime == 6

\* timestamps in any order: the code does not sort them
InitCS ==
    /\ RunIdle /\ ParseIdle
    /\ times \in SeqsUpTo(0..MaxTime, MaxSamples)
    /\ marks = None

\* the loop of lines 264-272 over times = [float(s['timestamp_ms']) ...]
Detect ==
    /\ marks = None
    /\ marks' = [fault |-> "none", cs |-> cs_marks([i \in 1..Len(times) |-> FromInt(times[i])])]
    /\ UNCHANGED times
    /\ UNCHANGED runVars /\ UNCHANGED parseVars

NextCS == Detect

SpecCS == InitCS /\ [][NextCS]_vars

\* C10: a marker is drawn between samples j-1 and j iff gap_j > 4 * avg and
\* avg > 0 with avg = (last - first) / n, n the number of samples (not of
\* gaps); stated without division: n * gap_j > 4 * (last - first) and
\* last - first > 0.  A thread with zero or one sample gets no marker.
C10_MarkerIffGapOverFourAvg ==
    marks # None =>
        LET n == Len(times)
        IN  /\ n <= 1 => marks.cs = {}
            /\ marks.cs \subseteq 1..(n - 1)
            /\ \A j \in 1..(n - 1) :
                j \in marks.cs <=>
                    /\ n * (times[j + 1] - times[j]) > 4 * (times[n] - times[1])
                    /\ times[n] - times[1] > 0

\* five samples, one long pause that is marked and short gaps that are not
C10_Witness ==
    /\ marks # None
    /\ Len(times) = 5
    /\ \A j \in 1..4 : times[j + 1] >= times[j]
    /\ times[2] - times[1] > 0
    /\ marks.cs = {4}

-----------------------------------------------------------------------------
(* the context-switch heuristic applied to timestamps in file order that   *)
(* never decrease, for threads of up to MaxSortedSamples samples            *)

MaxSortedSamples == 12

\* the timestamps a thread's samples carry, in increasing order
Stamps == <<0, 1, 100, 199, 298>>

\* the samples of a thread: c[i] consecutive samples stamped Stamps[i]
RECURSIVE Spread(_, _)
Spread(c, i) ==
    IF i > Len(Stamps) THEN <<>>
    ELSE [k \in 1..c[i] |-> Stamps[i]] \o Spread(c, i + 1)

InitSorted ==
    /\ RunIdle /\ ParseIdle
    /\ \E c \in [1..Len(Stamps) -> 0..MaxSortedSamples] :
        /\ Len(Spread(c, 1)) \in 1..MaxSortedSamples
        /\ times = Spread(c, 1)
    /\ marks = None

SpecSorted == InitSorted /\ [][NextCS]_vars

Flagged == Cardinality(marks.cs)

====
